---- MODULE Spec2Model ----
(***************************************************************************)
(* Salary sacrifice cap reform: the per-year transformation                *)
(* (_apply_reform_for_year), the modifier that drives it over a list of     *)
(* years, the scenario matrix and the affected-population statistics        *)
(* (calculate_affected_population) of salary_sacrifice/reforms.py, and the  *)
(* revenue, batch and decile aggregation of salary_sacrifice/analysis.py,   *)
(* against an engine that answers calculate(variable, period) from its      *)
(* per-year store and whose set_input(variable, period, values) replaces    *)
(* one vector of that store.                                                *)
(*                                                                         *)
(* Amounts and rates are exact rationals <<numerator, denominator>> in      *)
(* lowest terms with a positive denominator; the rounding of the program's  *)
(* binary floating point is not modelled.  A division by zero gives the     *)
(* values numpy gives: Inf for x / 0 with x > 0 and NaN for 0 / 0.          *)
(***************************************************************************)
EXTENDS Integers, Sequences, FiniteSets, TLC

VARIABLES sim, call, log, stats, driver, matrix, run, dist

vars == <<sim, call, log, stats, driver, matrix, run, dist>>

(***************************************************************************)
(* Bounds of the model.                                                    *)
(***************************************************************************)
\* Largest population size N (the vectors of a year all have length N).
MaxPersons == 2
\* Largest salary-sacrifice contribution of a person and largest cap amount.
MaxContribution == 2

\* The baseline employment incomes, employee pension contributions and
\* person weights a frame is drawn from.
IncomeLevels == {0, 1}
PensionLevels == {0, 1}
WeightLevels == {0, 1, 2}

(***************************************************************************)
(* Exact arithmetic on rationals, standing for the program's float          *)
(* arithmetic.                                                              *)
(***************************************************************************)
Abs(x) == IF x < 0 THEN -x ELSE x

RECURSIVE GCD(_, _)
GCD(a, b) == IF b = 0 THEN a ELSE GCD(b, a % b)

\* n / d in lowest terms, d > 0.
Rat(n, d) ==
    LET g == GCD(Abs(n), d)
    IN  <<n \div g, d \div g>>

FromInt(k) == <<k, 1>>
Zero == FromInt(0)
One == FromInt(1)
\* The two non-finite results of a float division: x / 0 and 0 / 0.
Inf == <<1, 0>>
NaN == <<0, 0>>
IsFinite(a) == a[2] # 0

RAdd(a, b) == Rat(a[1] * b[2] + b[1] * a[2], a[2] * b[2])
RSub(a, b) == Rat(a[1] * b[2] - b[1] * a[2], a[2] * b[2])
RMul(a, b) == Rat(a[1] * b[1], a[2] * b[2])
RLt(a, b) == a[1] * b[2] < b[1] * a[2]
RGt(a, b) == RLt(b, a)
RLe(a, b) == ~RLt(b, a)
RMax(a, b) == IF RLt(a, b) THEN b ELSE a
RMin(a, b) == IF RLt(b, a) THEN b ELSE a

\* a / b as numpy divides float scalars: no exception on a zero divisor.
RDiv(a, b) ==
    IF b[1] = 0
    THEN IF a[1] = 0 THEN NaN ELSE Inf
    ELSE IF b[1] > 0
         THEN Rat(a[1] * b[2], a[2] * b[1])
         ELSE Rat(-(a[1] * b[2]), a[2] * (-b[1]))

\* ndarray.sum()
RECURSIVE VecSum(_)
VecSum(v) == IF v = <<>> THEN Zero ELSE RAdd(v[1], VecSum(Tail(v)))

\* values[mask]: the entries of values at the positions where mask is TRUE.
RECURSIVE MaskSelect(_, _)
MaskSelect(values, mask) ==
    IF values = <<>>
    THEN <<>>
    ELSE IF mask[1]
         THEN <<values[1]>> \o MaskSelect(Tail(values), Tail(mask))
         ELSE MaskSelect(Tail(values), Tail(mask))

\* Elementwise operations of numpy on vectors of one length.
VecAdd(u, v) == [i \in DOMAIN u |-> RAdd(u[i], v[i])]
VecSub(u, v) == [i \in DOMAIN u |-> RSub(u[i], v[i])]
VecMul(u, v) == [i \in DOMAIN u |-> RMul(u[i], v[i])]
VecScale(u, k) == [i \in DOMAIN u |-> RMul(u[i], k)]
ZerosLike(u) == [i \in DOMAIN u |-> Zero]

(***************************************************************************)
(* Scenario configuration.                                                 *)
(***************************************************************************)
SPREAD_COST == "spread_cost"
ABSORB_COST == "absorb_cost"
TARGETED_HAIRCUT == "targeted_haircut"
EmployerResponse == {SPREAD_COST, ABSORB_COST, TARGETED_HAIRCUT}

MAINTAIN_PENSION == "maintain_pension"
TAKE_CASH == "take_cash"
PARTIAL_REDIRECT == "partial_redirect"
EmployeeResponse == {MAINTAIN_PENSION, TAKE_CASH, PARTIAL_REDIRECT}

\* A value of the response fields that is no member of the enumeration: the
\* dataclass does not validate its fields.
UNRECOGNIZED == "unrecognized"

\* Field defaults of SalarySacrificeCapScenario.
DefaultEmployerNiRate == Rat(138, 1000)
DefaultPensionRedirectRate == FromInt(1)
DefaultTargetedHaircutRate == Rat(13, 100)

\* The rates drawn for the field each variant reads: the default and one other
\* rate of [0, 1].
EmployerNiRates == {DefaultEmployerNiRate, One}
PensionRedirectRates == {DefaultPensionRedirectRate, Rat(1, 2)}
TargetedHaircutRates == {DefaultTargetedHaircutRate, Zero}

\* The configurations the model draws: every response pair, an unrecognized
\* value of either field included.  A rate is varied where the branch that
\* reads it is taken and keeps its default where no branch reads it.
Scenarios ==
    { s \in [cap_amount : {FromInt(cap) : cap \in 0..MaxContribution},
             employer_ni_rate : EmployerNiRates,
             employer_response : EmployerResponse \cup {UNRECOGNIZED},
             employee_response : EmployeeResponse \cup {UNRECOGNIZED},
             pension_redirect_rate : PensionRedirectRates,
             targeted_haircut_rate : TargetedHaircutRates] :
        /\ s.employer_response # SPREAD_COST
             => s.employer_ni_rate = DefaultEmployerNiRate
        /\ s.employee_response # PARTIAL_REDIRECT
             => s.pension_redirect_rate = DefaultPensionRedirectRate
        /\ s.employer_response # TARGETED_HAIRCUT
             => s.targeted_haircut_rate = DefaultTargetedHaircutRate }

(***************************************************************************)
(* The engine: calculate and set_input on the per-year store.              *)
(***************************************************************************)
SS_VAR == "pension_contributions_via_salary_sacrifice"
INCOME_VAR == "employment_income"
PENSION_VAR == "employee_pension_contributions"
WEIGHT_VAR == "person_weight"
EngineVariables == {SS_VAR, INCOME_VAR, PENSION_VAR, WEIGHT_VAR}

\* range(2026, 2031)
FirstYear == 2026
YearsEnd == 2031
Years == FirstYear..(YearsEnd - 1)

Calculate(s, variable, period) == s[period][variable]

SetInput(s, variable, period, values) ==
    [s EXCEPT ![period][variable] = values]

ReadEvent(variable, period) ==
    [op |-> "calculate", variable |-> variable, period |-> period]

WriteEvent(variable, period, values) ==
    [op |-> "set_input", variable |-> variable, period |-> period,
     length |-> Len(values)]

(***************************************************************************)
(* _apply_reform_for_year                                                  *)
(***************************************************************************)
\* Mutant of Excess: the subtraction without np.maximum.
ExcessUnclamped(ss_contrib, cap_amount) ==
    [i \in DOMAIN ss_contrib |-> RSub(ss_contrib[i], cap_amount)]

\* excess = np.maximum(ss_contrib - scenario.cap_amount, 0)
Excess(ss_contrib, cap_amount) ==
    [i \in DOMAIN ss_contrib |-> RMax(RSub(ss_contrib[i], cap_amount), Zero)]

\* Mutant of EmployeeBranch: TAKE_CASH redirects the excess as
\* MAINTAIN_PENSION does.
EmployeeBranchCashRedirects(scenario, excess) ==
    IF scenario.employee_response \in {MAINTAIN_PENSION, TAKE_CASH}
    THEN [raised |-> FALSE, pension_redirect |-> excess]
    ELSE IF scenario.employee_response = PARTIAL_REDIRECT
         THEN [raised |-> FALSE,
               pension_redirect |->
                   VecScale(excess, scenario.pension_redirect_rate)]
         ELSE [raised |-> TRUE, pension_redirect |-> <<>>]

\* The employee-response branch: the pension redirect, or the ValueError of
\* its else arm.
EmployeeBranch(scenario, excess) ==
    IF scenario.employee_response = MAINTAIN_PENSION
    THEN [raised |-> FALSE, pension_redirect |-> excess]
    ELSE IF scenario.employee_response = TAKE_CASH
         THEN [raised |-> FALSE, pension_redirect |-> ZerosLike(excess)]
         ELSE IF scenario.employee_response = PARTIAL_REDIRECT
              THEN [raised |-> FALSE,
                    pension_redirect |->
                        VecScale(excess, scenario.pension_redirect_rate)]
              ELSE [raised |-> TRUE, pension_redirect |-> <<>>]

\* Mutant of BroadHaircutRate: the total excess, not the employer NI on it, is
\* spread.
BroadHaircutRateOfExcess(excess, emp_income, employer_ni_rate) ==
    LET total_excess == VecSum(excess)
        total_employment_income == VecSum(emp_income)
    IN  IF RGt(total_employment_income, Zero)
        THEN RDiv(total_excess, total_employment_income)
        ELSE Zero

\* The scalar rate of the SPREAD_COST branch.
BroadHaircutRate(excess, emp_income, employer_ni_rate) ==
    LET total_employer_ni_increase == VecSum(VecScale(excess, employer_ni_rate))
        total_employment_income == VecSum(emp_income)
    IN  IF RGt(total_employment_income, Zero)
        THEN RDiv(total_employer_ni_increase, total_employment_income)
        ELSE Zero

\* Mutant of SpreadCostIncome: only the persons with excess take the haircut.
SpreadCostIncomeAffectedOnly(emp_income, broad_haircut_rate, cash_portion) ==
    [i \in DOMAIN emp_income |->
        IF cash_portion[i] = Zero
        THEN emp_income[i]
        ELSE RAdd(RMul(emp_income[i], RSub(One, broad_haircut_rate)),
                  cash_portion[i])]

\* new_employment_income of the SPREAD_COST branch.
SpreadCostIncome(emp_income, broad_haircut_rate, cash_portion) ==
    VecAdd(VecScale(emp_income, RSub(One, broad_haircut_rate)), cash_portion)

\* Mutant of AbsorbCostIncome: the employer NI on the cash is taken off it.
AbsorbCostIncomeNetOfNi(emp_income, cash_portion) ==
    VecAdd(emp_income, VecScale(cash_portion, RSub(One, DefaultEmployerNiRate)))

\* new_employment_income of the ABSORB_COST branch.
AbsorbCostIncome(emp_income, cash_portion) ==
    VecAdd(emp_income, cash_portion)

\* Mutant of TargetedHaircutBranch: the gross excess is redirected to the
\* pension.
TargetedHaircutGrossRedirect(scenario, excess, emp_income) ==
    LET haircut == VecScale(excess, scenario.targeted_haircut_rate)
        cash_portion == VecSub(excess, haircut)
    IN  [raised |-> FALSE,
         broad_haircut_rate |-> Zero,
         cash_portion |-> cash_portion,
         pension_redirect |-> excess,
         new_employment_income |-> VecAdd(emp_income, cash_portion)]

\* The TARGETED_HAIRCUT branch: it replaces cash_portion and pension_redirect.
TargetedHaircutBranch(scenario, excess, emp_income) ==
    LET haircut == VecScale(excess, scenario.targeted_haircut_rate)
        cash_portion == VecSub(excess, haircut)
    IN  [raised |-> FALSE,
         broad_haircut_rate |-> Zero,
         cash_portion |-> cash_portion,
         pension_redirect |-> cash_portion,
         new_employment_income |-> VecAdd(emp_income, cash_portion)]

\* Mutant of EmployerBranch: an unrecognized response is served as
\* ABSORB_COST.
EmployerBranchDefaulting(scenario, excess, emp_income, pension_redirect, cash_portion) ==
    IF scenario.employer_response = SPREAD_COST
    THEN LET broad_haircut_rate ==
                 BroadHaircutRate(excess, emp_income, scenario.employer_ni_rate)
         IN  [raised |-> FALSE,
              broad_haircut_rate |-> broad_haircut_rate,
              cash_portion |-> cash_portion,
              pension_redirect |-> pension_redirect,
              new_employment_income |->
                  SpreadCostIncome(emp_income, broad_haircut_rate, cash_portion)]
    ELSE IF scenario.employer_response = TARGETED_HAIRCUT
         THEN TargetedHaircutBranch(scenario, excess, emp_income)
         ELSE [raised |-> FALSE,
               broad_haircut_rate |-> Zero,
               cash_portion |-> cash_portion,
               pension_redirect |-> pension_redirect,
               new_employment_income |->
                   AbsorbCostIncome(emp_income, cash_portion)]

\* The employer-response branch, entered with the pension_redirect and
\* cash_portion the lines before it have set.
EmployerBranch(scenario, excess, emp_income, pension_redirect, cash_portion) ==
    IF scenario.employer_response = SPREAD_COST
    THEN LET broad_haircut_rate ==
                 BroadHaircutRate(excess, emp_income, scenario.employer_ni_rate)
         IN  [raised |-> FALSE,
              broad_haircut_rate |-> broad_haircut_rate,
              cash_portion |-> cash_portion,
              pension_redirect |-> pension_redirect,
              new_employment_income |->
                  SpreadCostIncome(emp_income, broad_haircut_rate, cash_portion)]
    ELSE IF scenario.employer_response = ABSORB_COST
         THEN [raised |-> FALSE,
               broad_haircut_rate |-> Zero,
               cash_portion |-> cash_portion,
               pension_redirect |-> pension_redirect,
               new_employment_income |->
                   AbsorbCostIncome(emp_income, cash_portion)]
         ELSE IF scenario.employer_response = TARGETED_HAIRCUT
              THEN TargetedHaircutBranch(scenario, excess, emp_income)
              ELSE [raised |-> TRUE]

\* Mutant of NewSsContrib: the contribution is written back uncapped.
NewSsContribUncapped(ss_contrib, cap_amount) == ss_contrib

\* Mutant of NewSsContrib: every person's contribution is set to the cap.
NewSsContribFlatCap(ss_contrib, cap_amount) ==
    [i \in DOMAIN ss_contrib |-> cap_amount]

\* new_ss_contrib = np.minimum(ss_contrib, scenario.cap_amount)
NewSsContrib(ss_contrib, cap_amount) ==
    [i \in DOMAIN ss_contrib |-> RMin(ss_contrib[i], cap_amount)]

\* new_employee_pension = employee_pension + pension_redirect
NewEmployeePension(employee_pension, pension_redirect) ==
    VecAdd(employee_pension, pension_redirect)

\* Mutant of ReformReads: the employee pension contributions are not read
\* at the head of the function.
ReformReadsWithoutPension(year) ==
    <<ReadEvent(SS_VAR, year), ReadEvent(INCOME_VAR, year)>>

\* The three calculate calls that open the function.
ReformReads(year) ==
    <<ReadEvent(SS_VAR, year), ReadEvent(INCOME_VAR, year),
      ReadEvent(PENSION_VAR, year)>>

\* Mutant of ReformWrites: the vectors are written to the first year of the
\* range whatever the year of the call.
ReformWritesFirstYear(s, year, new_employment_income, new_employee_pension, new_ss_contrib) ==
    SetInput(SetInput(SetInput(s, INCOME_VAR, FirstYear, new_employment_income),
                      PENSION_VAR, FirstYear, new_employee_pension),
             SS_VAR, FirstYear, new_ss_contrib)

\* The three set_input calls that close the function, in their order.
ReformWrites(s, year, new_employment_income, new_employee_pension, new_ss_contrib) ==
    SetInput(SetInput(SetInput(s, INCOME_VAR, year, new_employment_income),
                      PENSION_VAR, year, new_employee_pension),
             SS_VAR, year, new_ss_contrib)

\* One call _apply_reform_for_year(sim, year, scenario), from whichever
\* caller.  call keeps the function's locals, log the engine calls it made.
ApplyReformForYear(year, scenario) ==
    LET ss_contrib == Calculate(sim, SS_VAR, year)
        emp_income == Calculate(sim, INCOME_VAR, year)
        employee_pension == Calculate(sim, PENSION_VAR, year)
        excess == Excess(ss_contrib, scenario.cap_amount)
        employee == EmployeeBranch(scenario, excess)
        employer == EmployerBranch(scenario, excess, emp_income,
                                   employee.pension_redirect, excess)
        locals == [year |-> year, scenario |-> scenario,
                   ss_contrib |-> ss_contrib, emp_income |-> emp_income,
                   employee_pension |-> employee_pension, excess |-> excess]
    IN  IF employee.raised
        THEN /\ call' = locals @@ [status |-> "ValueError",
                                   message |-> "Unknown employee response"]
             /\ log' = ReformReads(year)
             /\ sim' = sim
        ELSE IF employer.raised
        THEN /\ call' = locals @@ [status |-> "ValueError",
                                   message |-> "Unknown employer response"]
             /\ log' = ReformReads(year)
             /\ sim' = sim
        ELSE LET new_employment_income == employer.new_employment_income
                 new_employee_pension ==
                     NewEmployeePension(employee_pension,
                                        employer.pension_redirect)
                 new_ss_contrib ==
                     NewSsContrib(ss_contrib, scenario.cap_amount)
             IN  /\ call' = locals @@
                      [status |-> "ok",
                       pension_redirect |-> employer.pension_redirect,
                       cash_portion |-> employer.cash_portion,
                       broad_haircut_rate |-> employer.broad_haircut_rate,
                       new_employment_income |-> new_employment_income,
                       new_employee_pension |-> new_employee_pension,
                       new_ss_contrib |-> new_ss_contrib]
                 /\ log' = ReformReads(year) \o
                      <<WriteEvent(INCOME_VAR, year, new_employment_income),
                        WriteEvent(PENSION_VAR, year, new_employee_pension),
                        WriteEvent(SS_VAR, year, new_ss_contrib)>>
                 /\ sim' = ReformWrites(sim, year, new_employment_income,
                                        new_employee_pension, new_ss_contrib)

(***************************************************************************)
(* calculate_affected_population                                           *)
(***************************************************************************)
Billion == 1000000000
Hundred == 100

\* ss_contrib > 0
HasSs(ss_contrib) == [i \in DOMAIN ss_contrib |-> RGt(ss_contrib[i], Zero)]

\* Mutant of AboveCap: a contribution equal to the cap counts as above it.
AboveCapInclusive(ss_contrib, cap_amount) ==
    [i \in DOMAIN ss_contrib |-> RLe(cap_amount, ss_contrib[i])]

\* ss_contrib > cap_amount
AboveCap(ss_contrib, cap_amount) ==
    [i \in DOMAIN ss_contrib |-> RGt(ss_contrib[i], cap_amount)]

\* emp_income > 0
HasEmployment(emp_income) == [i \in DOMAIN emp_income |-> RGt(emp_income[i], Zero)]

\* weights[mask].sum()
WeightedCount(weights, mask) == VecSum(MaskSelect(weights, mask))

\* (ss_contrib[mask] * weights[mask]).sum() / count if count > 0 else 0
AvgContribution(ss_contrib, weights, mask, count) ==
    IF RGt(count, Zero)
    THEN RDiv(VecSum(VecMul(MaskSelect(ss_contrib, mask),
                            MaskSelect(weights, mask))), count)
    ELSE Zero

\* 100 * affected_workers / ss_contributors if ss_contributors > 0 else 0
PctOfSs(affected_workers, ss_contributors) ==
    IF RGt(ss_contributors, Zero)
    THEN RDiv(RMul(FromInt(Hundred), affected_workers), ss_contributors)
    ELSE Zero

\* 100 * count / total_workers
PctOfAll(count, total_workers) ==
    RDiv(RMul(FromInt(Hundred), count), total_workers)

\* The dictionary calculate_affected_population(s, year, cap_amount) returns.
AffectedPopulation(s, year, cap_amount) ==
    LET ss_contrib == Calculate(s, SS_VAR, year)
        weights == Calculate(s, WEIGHT_VAR, year)
        emp_income == Calculate(s, INCOME_VAR, year)
        has_ss == HasSs(ss_contrib)
        ss_contributors == WeightedCount(weights, has_ss)
        above_cap == AboveCap(ss_contrib, cap_amount)
        affected_workers == WeightedCount(weights, above_cap)
        excess == Excess(ss_contrib, cap_amount)
        total_excess == VecSum(VecMul(excess, weights))
        avg_ss_all == AvgContribution(ss_contrib, weights, has_ss, ss_contributors)
        avg_ss_above_cap ==
            AvgContribution(ss_contrib, weights, above_cap, affected_workers)
        has_employment == HasEmployment(emp_income)
        total_workers == WeightedCount(weights, has_employment)
    IN  [total_workers |-> total_workers,
         ss_contributors |-> ss_contributors,
         ss_contributors_pct |-> PctOfAll(ss_contributors, total_workers),
         affected_workers |-> affected_workers,
         affected_workers_pct_of_ss |-> PctOfSs(affected_workers, ss_contributors),
         affected_workers_pct_of_all |-> PctOfAll(affected_workers, total_workers),
         avg_contribution_all_ss |-> avg_ss_all,
         avg_contribution_above_cap |-> avg_ss_above_cap,
         total_excess_bn |-> RDiv(total_excess, FromInt(Billion))]

\* One call calculate_affected_population(sim, year, cap_amount).  stats keeps
\* the arguments and the dictionary returned; the engine is only read.
CalculateAffectedPopulation(year, cap_amount) ==
    /\ stats.status = "none"
    /\ stats' = [status |-> "returned", year |-> year, cap_amount |-> cap_amount,
                 result |-> AffectedPopulation(sim, year, cap_amount)]
    /\ log' = <<ReadEvent(SS_VAR, year), ReadEvent(WEIGHT_VAR, year),
                ReadEvent(INCOME_VAR, year)>>
    /\ UNCHANGED <<sim, call, driver, matrix, run, dist>>

(***************************************************************************)
(* The baseline frames and the specification of one transformation call.   *)
(***************************************************************************)
\* A person of a frame.  The transformation and the statistics treat persons
\* alike, so frames are drawn up to the order of their persons: PersonKey is
\* non-decreasing along a frame.
Persons(pensions, weights) ==
    [ss : 0..MaxContribution, inc : IncomeLevels, ep : pensions, w : weights]

PersonKey(p) == ((p.ss * 10 + p.inc) * 10 + p.ep) * 10 + p.w

\* The PopulationFrames of n persons: non-negative amounts, one length.
Frames(n, pensions, weights) ==
    { [v \in EngineVariables |->
          CASE v = SS_VAR -> [i \in 1..n |-> FromInt(f[i].ss)]
            [] v = INCOME_VAR -> [i \in 1..n |-> FromInt(f[i].inc)]
            [] v = PENSION_VAR -> [i \in 1..n |-> FromInt(f[i].ep)]
            [] v = WEIGHT_VAR -> [i \in 1..n |-> FromInt(f[i].w)]] :
        f \in { g \in [1..n -> Persons(pensions, weights)] :
                  \A i \in 1..(n - 1) : PersonKey(g[i]) <= PersonKey(g[i + 1]) } }

NoCall == [status |-> "none"]
NoStats == [status |-> "none"]
NoDriver == [status |-> "none"]
NoMatrix == [status |-> "none"]
NoRun == [status |-> "none"]
NoDist == [status |-> "none"]

Init ==
    /\ \E n \in 0..MaxPersons : \E frame \in Frames(n, PensionLevels, {1}) :
           sim = [y \in Years |-> frame]
    /\ call = NoCall
    /\ log = <<>>
    /\ stats = NoStats
    /\ driver = NoDriver
    /\ matrix = NoMatrix
    /\ run = NoRun
    /\ dist = NoDist

\* One direct call of the transformation on the baseline store.
Next ==
    \E year \in {FirstYear}, scenario \in Scenarios :
        /\ call.status = "none"
        /\ ApplyReformForYear(year, scenario)
        /\ UNCHANGED <<stats, driver, matrix, run, dist>>

Spec == Init /\ [][Next]_vars

(***************************************************************************)
(* The specification of one statistics call on a weighted baseline frame.  *)
(***************************************************************************)
InitStats ==
    /\ \E n \in 0..MaxPersons : \E frame \in Frames(n, {0}, WeightLevels) :
           sim = [y \in Years |-> frame]
    /\ call = NoCall
    /\ log = <<>>
    /\ stats = NoStats
    /\ driver = NoDriver
    /\ matrix = NoMatrix
    /\ run = NoRun
    /\ dist = NoDist

NextStats ==
    \E year \in {FirstYear}, cap \in 0..MaxContribution :
        CalculateAffectedPopulation(year, FromInt(cap))

SpecStats == InitStats /\ [][NextStats]_vars

(***************************************************************************)
(* create_salary_sacrifice_cap_reform: the modifier and its loop over the  *)
(* years.                                                                  *)
(***************************************************************************)
\* Largest length of a list of years handed to the program.
MaxYears == 2

\* An optional argument: given with a value, or left out (None).
Some(value) == [given |-> TRUE, value |-> value]
None == [given |-> FALSE]

\* Mutant of DefaultYears: the four years 2026..2029.
DefaultYearsFour == [k \in 1..(YearsEnd - FirstYear - 1) |-> FirstYear + (k - 1)]

\* list(range(2026, 2031))
DefaultYears == [k \in 1..(YearsEnd - FirstYear) |-> FirstYear + (k - 1)]

\* create_salary_sacrifice_cap_reform(scenario, years): what the returned
\* closure modify holds.
CreateReform(scenario, years) ==
    [scenario |-> scenario,
     years |-> IF years.given THEN years.value ELSE DefaultYears]

\* The engine calls modify(sim) with the store sim: the state at the head of
\* the loop.  baseline keeps the store as it was handed over, trace the engine
\* calls of each iteration and stored the year's frame after each iteration.
ModifyCalled(scenario, years) ==
    [status |-> "running", years_arg |-> years,
     reform |-> CreateReform(scenario, years),
     position |-> 0, baseline |-> sim, trace |-> <<>>, stored |-> <<>>]

\* One iteration of "for year in years": the call of _apply_reform_for_year
\* for the next year of the list.  A ValueError of the call leaves the loop.
ModifyStep ==
    /\ driver.status = "running"
    /\ driver.position < Len(driver.reform.years)
    /\ LET year == driver.reform.years[driver.position + 1]
       IN  /\ ApplyReformForYear(year, driver.reform.scenario)
           /\ driver' = [driver EXCEPT
                  !.status = IF call'.status = "ok" THEN "running" ELSE "raised",
                  !.position = @ + 1,
                  !.trace = Append(@, log'),
                  !.stored = Append(@, sim'[year])]
    /\ UNCHANGED <<stats, matrix, run, dist>>

\* The loop is exhausted: modify returns.
ModifyReturn ==
    /\ driver.status = "running"
    /\ driver.position = Len(driver.reform.years)
    /\ driver' = [driver EXCEPT !.status = "returned"]
    /\ UNCHANGED <<sim, call, log, stats, matrix, run, dist>>

NextModify == ModifyStep \/ ModifyReturn

\* The lists of years the program may be handed: any list, repeats and the
\* empty list included, or none.
RECURSIVE Lists(_, _)
Lists(values, n) ==
    IF n = 0
    THEN {<<>>}
    ELSE Lists(values, n - 1)
           \cup {Append(l, v) : l \in {m \in Lists(values, n - 1) : Len(m) = n - 1},
                                v \in values}

\* The years the drawn lists are made of.
ListYears == {2026, 2027, 2028}

YearArguments == {None} \cup {Some(years) : years \in Lists(ListYears, MaxYears)}

\* The one-person frames of the driver's stores: one worker with employment
\* income 1 and any contribution.
DriverFrames ==
    { frame \in Frames(1, PensionLevels, {1}) : frame[INCOME_VAR] = <<One>> }

\* The configurations of the driver: cap 1, default rates, every employer
\* response (an unrecognized one included) with MaintainPension or TakeCash.
DriverScenarios ==
    { s \in Scenarios :
        /\ s.cap_amount = One
        /\ s.employer_ni_rate = DefaultEmployerNiRate
        /\ s.targeted_haircut_rate = DefaultTargetedHaircutRate
        /\ s.employee_response \in {MAINTAIN_PENSION, TAKE_CASH} }

\* The modifier over a store whose frames differ from one year to the next:
\* the years alternate between two frames drawn independently.
InitDriver ==
    /\ \E even, odd \in DriverFrames :
           sim = [y \in Years |-> IF (y - FirstYear) % 2 = 0 THEN even ELSE odd]
    /\ call = NoCall
    /\ log = <<>>
    /\ stats = NoStats
    /\ \E scenario \in DriverScenarios, years \in YearArguments :
           driver = ModifyCalled(scenario, years)
    /\ matrix = NoMatrix
    /\ run = NoRun
    /\ dist = NoDist

SpecDriver == InitDriver /\ [][NextModify]_vars

\* The configurations of the repeated application: every recognized response
\* pair and every cap, with the default rates.
RepeatScenarios ==
    { s \in Scenarios :
        /\ s.employer_response \in EmployerResponse
        /\ s.employee_response \in EmployeeResponse
        /\ s.employer_ni_rate = DefaultEmployerNiRate
        /\ s.pension_redirect_rate = DefaultPensionRedirectRate
        /\ s.targeted_haircut_rate = DefaultTargetedHaircutRate }

\* The modifier applied twice in succession for one year, on any baseline
\* frame: years = [2026, 2026].
InitRepeat ==
    /\ \E n \in 0..MaxPersons : \E frame \in Frames(n, PensionLevels, {1}) :
           sim = [y \in Years |-> frame]
    /\ call = NoCall
    /\ log = <<>>
    /\ stats = NoStats
    /\ \E scenario \in RepeatScenarios :
           driver = ModifyCalled(scenario, Some(<<FirstYear, FirstYear>>))
    /\ matrix = NoMatrix
    /\ run = NoRun
    /\ dist = NoDist

SpecRepeat == InitRepeat /\ [][NextModify]_vars

(***************************************************************************)
(* get_scenario_matrix and the batch of run_scenario_matrix                *)
(***************************************************************************)
\* Largest length of a list of cap amounts handed to the program.
MaxCaps == 2
\* Largest number of calls of get_scenario_matrix with one argument.
MaxCalls == 2
\* The cap amount used when no list of cap amounts is given.
DefaultCapAmount == 2000

\* SalarySacrificeCapScenario(cap_amount=cap, employer_response=employer,
\* employee_response=employee): the other fields take their defaults.
MakeScenario(cap, employer, employee) ==
    [cap_amount |-> cap,
     employer_ni_rate |-> DefaultEmployerNiRate,
     employer_response |-> employer,
     employee_response |-> employee,
     pension_redirect_rate |-> DefaultPensionRedirectRate,
     targeted_haircut_rate |-> DefaultTargetedHaircutRate]

\* Mutant of ScenariosOfCap: the employee loop is the outer one.
ScenariosOfCapEmployeeOuter(cap) ==
    <<MakeScenario(cap, SPREAD_COST, MAINTAIN_PENSION),
      MakeScenario(cap, ABSORB_COST, MAINTAIN_PENSION),
      MakeScenario(cap, SPREAD_COST, TAKE_CASH),
      MakeScenario(cap, ABSORB_COST, TAKE_CASH)>>

\* The configurations the two inner loops of get_scenario_matrix append for
\* one cap: for employer in [SPREAD_COST, ABSORB_COST], for employee in
\* [MAINTAIN_PENSION, TAKE_CASH].
ScenariosOfCap(cap) ==
    <<MakeScenario(cap, SPREAD_COST, MAINTAIN_PENSION),
      MakeScenario(cap, SPREAD_COST, TAKE_CASH),
      MakeScenario(cap, ABSORB_COST, MAINTAIN_PENSION),
      MakeScenario(cap, ABSORB_COST, TAKE_CASH)>>

\* The outer loop: for cap in cap_amounts.
RECURSIVE ScenariosOfCaps(_)
ScenariosOfCaps(caps) ==
    IF caps = <<>>
    THEN <<>>
    ELSE ScenariosOfCap(Head(caps)) \o ScenariosOfCaps(Tail(caps))

\* get_scenario_matrix(cap_amounts): None stands for [2000].
ScenarioMatrix(cap_amounts) ==
    ScenariosOfCaps(IF cap_amounts.given
                    THEN cap_amounts.value
                    ELSE <<FromInt(DefaultCapAmount)>>)

\* cap_amounts or [2000]: None and the empty list both stand for [2000].
TargetedHaircutCaps(cap_amounts) ==
    IF cap_amounts.given /\ cap_amounts.value # <<>>
    THEN cap_amounts.value
    ELSE <<FromInt(DefaultCapAmount)>>

\* The configurations run_scenario_matrix hands to run_scenario, in the order
\* it runs them.
ScenarioBatch(cap_amounts, include_targeted_haircut) ==
    ScenarioMatrix(cap_amounts)
      \o IF include_targeted_haircut
         THEN LET caps == TargetedHaircutCaps(cap_amounts)
              IN  [k \in DOMAIN caps |->
                      MakeScenario(caps[k], TARGETED_HAIRCUT, MAINTAIN_PENSION)]
         ELSE <<>>

\* One call get_scenario_matrix(cap_amounts); returns keeps the list each call
\* returned.
GetScenarioMatrix ==
    /\ matrix.status # "none"
    /\ Len(matrix.returns) < MaxCalls
    /\ matrix' = [matrix EXCEPT
                    !.returns = Append(@, ScenarioMatrix(matrix.cap_amounts))]
    /\ UNCHANGED <<sim, call, log, stats, driver, run, dist>>

\* One call run_scenario_matrix(cap_amounts, include_targeted_haircut=...);
\* batch keeps the configurations it ran.
RunScenarioMatrix(include_targeted_haircut) ==
    /\ matrix.status = "ready"
    /\ matrix' = [matrix EXCEPT
                    !.status = "run",
                    !.include_targeted_haircut = include_targeted_haircut,
                    !.batch = ScenarioBatch(matrix.cap_amounts,
                                            include_targeted_haircut)]
    /\ UNCHANGED <<sim, call, log, stats, driver, run, dist>>

\* The cap_amounts arguments: any list of caps, the empty one included, or
\* none.
CapArguments ==
    {None} \cup {Some(caps) : caps \in Lists({FromInt(cap) : cap \in 0..MaxContribution},
                                             MaxCaps)}

InitMatrix ==
    /\ sim = [y \in Years |-> [v \in EngineVariables |-> <<>>]]
    /\ call = NoCall
    /\ log = <<>>
    /\ stats = NoStats
    /\ driver = NoDriver
    /\ \E cap_amounts \in CapArguments :
           matrix = [status |-> "ready", cap_amounts |-> cap_amounts,
                     returns |-> <<>>, include_targeted_haircut |-> FALSE,
                     batch |-> <<>>]
    /\ run = NoRun
    /\ dist = NoDist

NextMatrix ==
    \/ GetScenarioMatrix
    \/ \E include_targeted_haircut \in BOOLEAN :
           RunScenarioMatrix(include_targeted_haircut)

SpecMatrix == InitMatrix /\ [][NextMatrix]_vars

(***************************************************************************)
(* run_scenario: revenue by year, total and average                        *)
(***************************************************************************)
\* years = [2026, 2027, 2028, 2029] when no list of years is given.
DefaultRunYears == <<2026, 2027, 2028, 2029>>

\* revenue_change = (reformed_balance - baseline_balance) / 1e9
RevenueChange(reformed_balance, baseline_balance) ==
    RDiv(RSub(reformed_balance, baseline_balance), FromInt(Billion))

\* The keys of the dictionary revenue_by_year after the loop over years, in
\* insertion order: a year listed twice is one key.
RECURSIVE DictKeys(_)
DictKeys(years) ==
    IF years = <<>>
    THEN <<>>
    ELSE LET front == DictKeys(SubSeq(years, 1, Len(years) - 1))
             year == years[Len(years)]
         IN  IF \E k \in DOMAIN front : front[k] = year
             THEN front
             ELSE Append(front, year)

\* results["revenue_by_year"] after the loop; gov_balance_of.baseline[year]
\* and gov_balance_of.reformed[year] are the sums of gov_balance the two
\* simulations answer for the year.
RevenueByYear(years, gov_balance_of) ==
    [year \in {years[k] : k \in DOMAIN years} |->
        RevenueChange(FromInt(gov_balance_of.reformed[year]),
                      FromInt(gov_balance_of.baseline[year]))]

\* sum(results["revenue_by_year"].values())
TotalRevenue(revenue_by_year, years) ==
    LET keys == DictKeys(years)
    IN  VecSum([k \in DOMAIN keys |-> revenue_by_year[keys[k]]])

\* run_scenario(scenario, years): the dictionary it returns, or the
\* ZeroDivisionError of total / len(years) for an empty list of years.
ScenarioResults(s, scenario, years_arg, gov_balance_of) ==
    LET years == IF years_arg.given THEN years_arg.value ELSE DefaultRunYears
        revenue_by_year == RevenueByYear(years, gov_balance_of)
        total_revenue_bn == TotalRevenue(revenue_by_year, years)
    IN  IF Len(years) = 0
        THEN [status |-> "ZeroDivisionError"]
        ELSE [status |-> "returned",
              cap_amount |-> scenario.cap_amount,
              employer_response |-> scenario.employer_response,
              employee_response |-> scenario.employee_response,
              revenue_by_year |-> revenue_by_year,
              affected_population |->
                  AffectedPopulation(s, years[1], scenario.cap_amount),
              total_revenue_bn |-> total_revenue_bn,
              avg_annual_revenue_bn |->
                  RDiv(total_revenue_bn, FromInt(Len(years)))]

\* One call run_scenario(scenario, years) on the baseline store.
RunScenario ==
    /\ run.status = "ready"
    /\ run' = [run EXCEPT
                 !.status = "done",
                 !.results = ScenarioResults(sim, run.scenario, run.years_arg,
                                             run.gov_balance_of)]
    /\ UNCHANGED <<sim, call, log, stats, driver, matrix, dist>>

\* The sums of gov_balance a simulation may answer for a year, in pounds.
BaselineBalances == {0, 1000000000}
ReformedBalances == {500000000, 2000000000}

\* One scenario on a baseline of one worker above the cap; the sums of
\* gov_balance of the baseline (the same in every year) and of the reformed
\* simulation (any in every year) are the engine's.
InitRun ==
    /\ \E frame \in Frames(1, {0}, {1}) :
           /\ frame[SS_VAR] = <<FromInt(MaxContribution)>>
           /\ frame[INCOME_VAR] = <<One>>
           /\ sim = [y \in Years |-> frame]
    /\ call = NoCall
    /\ log = <<>>
    /\ stats = NoStats
    /\ driver = NoDriver
    /\ matrix = NoMatrix
    /\ \E years_arg \in YearArguments, balance \in BaselineBalances :
       \E reformed \in [Years -> ReformedBalances] :
           run = [status |-> "ready",
                  scenario |-> MakeScenario(One, SPREAD_COST, MAINTAIN_PENSION),
                  years_arg |-> years_arg,
                  gov_balance_of |-> [baseline |-> [y \in Years |-> balance],
                                      reformed |-> reformed],
                  results |-> [status |-> "none"]]
    /\ dist = NoDist

NextRun == RunScenario

SpecRun == InitRun /\ [][NextRun]_vars

(***************************************************************************)
(* calculate_distributional_impact: the rows by income decile              *)
(***************************************************************************)
\* range(1, 11)
FirstDecile == 1
DecilesEnd == 11

\* series[mask].sum() of a weighted series: the engine's sum weights each
\* value by the household weight.
SeriesSum(values, weights, mask) ==
    VecSum(VecMul(MaskSelect(values, mask), MaskSelect(weights, mask)))

\* weights[mask].sum(): the series of household weights is itself a weighted
\* series of the engine; whether its sum is the plain sum of the weights or
\* weights them as well is the engine's.
WeightSum(weights, mask, weighted) ==
    IF weighted
    THEN SeriesSum(weights, weights, mask)
    ELSE VecSum(MaskSelect(weights, mask))

\* Mutant of PctChange: the division is not guarded.
PctChangeUnguarded(avg_change, avg_baseline) ==
    RDiv(RMul(FromInt(Hundred), avg_change), avg_baseline)

\* pct_change = 100 * avg_change / avg_baseline if avg_baseline != 0 else 0
PctChange(avg_change, avg_baseline) ==
    IF avg_baseline # Zero
    THEN RDiv(RMul(FromInt(Hundred), avg_change), avg_baseline)
    ELSE Zero

\* The rows the loop appends for the deciles decile, ..., 10.
RECURSIVE DecileRows(_, _, _)
DecileRows(households, weighted, decile) ==
    IF decile = DecilesEnd
    THEN <<>>
    ELSE LET mask == [i \in DOMAIN households.deciles |->
                         households.deciles[i] = decile]
             baseline_sum ==
                 SeriesSum(households.baseline_income, households.weights, mask)
             reformed_sum ==
                 SeriesSum(households.reformed_income, households.weights, mask)
             total_weight == WeightSum(households.weights, mask, weighted)
             avg_baseline == RDiv(baseline_sum, total_weight)
             avg_reformed == RDiv(reformed_sum, total_weight)
             avg_change == RSub(avg_reformed, avg_baseline)
         IN  ( IF total_weight = Zero
               THEN <<>>
               ELSE <<[decile |-> decile,
                       avg_baseline_income |-> avg_baseline,
                       avg_reformed_income |-> avg_reformed,
                       avg_change |-> avg_change,
                       pct_change |-> PctChange(avg_change, avg_baseline),
                       population |-> total_weight]>> )
               \o DecileRows(households, weighted, decile + 1)

\* The rows of the DataFrame calculate_distributional_impact returns.
DistributionalImpact(households, weighted) ==
    DecileRows(households, weighted, FirstDecile)

\* One call calculate_distributional_impact on the household vectors the two
\* simulations answer.
CalculateDistributionalImpact ==
    /\ dist.status = "ready"
    /\ dist' = [dist EXCEPT
                  !.status = "returned",
                  !.rows = DistributionalImpact(dist.households, dist.weighted)]
    /\ UNCHANGED <<sim, call, log, stats, driver, matrix, run>>

\* The deciles, weights and net incomes a household is drawn from.
DecileLevels == {1, 2, 10}
HouseholdWeights == {0, 2}
BaselineIncomes == {0, 2}
ReformedIncomes == {1, 2}

HouseholdLevels ==
    [decile : DecileLevels, w : HouseholdWeights, baseline : BaselineIncomes,
     reformed : ReformedIncomes]

HouseholdKey(h) == ((h.decile * 10 + h.w) * 10 + h.baseline) * 10 + h.reformed

\* The household vectors of n households, up to the order of the households.
Households(n) ==
    { [deciles |-> [i \in 1..n |-> f[i].decile],
       weights |-> [i \in 1..n |-> FromInt(f[i].w)],
       baseline_income |-> [i \in 1..n |-> FromInt(f[i].baseline)],
       reformed_income |-> [i \in 1..n |-> FromInt(f[i].reformed)]] :
        f \in { g \in [1..n -> HouseholdLevels] :
                  \A i \in 1..(n - 1) :
                      HouseholdKey(g[i]) <= HouseholdKey(g[i + 1]) } }

InitDist ==
    /\ sim = [y \in Years |-> [v \in EngineVariables |-> <<>>]]
    /\ call = NoCall
    /\ log = <<>>
    /\ stats = NoStats
    /\ driver = NoDriver
    /\ matrix = NoMatrix
    /\ run = NoRun
    /\ \E n \in 0..MaxPersons : \E households \in Households(n) :
       \E weighted \in BOOLEAN :
           dist = [status |-> "ready", households |-> households,
                   weighted |-> weighted, rows |-> <<>>]

NextDist == CalculateDistributionalImpact

SpecDist == InitDist /\ [][NextDist]_vars

(***************************************************************************)
(* Properties of one transformation call (specification Spec).             *)
(***************************************************************************)
\* The call has run to its end: its three set_input calls are made.
ReformApplied == call.status = "ok"

\* The vector the store holds for the call's year after the call.
Written(variable) == sim[call.year][variable]

\* The persons of the call's frame.
CallPersons == DOMAIN call.ss_contrib

\* max(ss_contrib[i] - cap_amount, 0), from the baseline the call read.
ExcessOf(i) ==
    IF RGt(call.ss_contrib[i], call.scenario.cap_amount)
    THEN RSub(call.ss_contrib[i], call.scenario.cap_amount)
    ELSE Zero

\* The sum of f[1], ..., f[n].
RECURSIVE SumTo(_, _)
SumTo(f, n) == IF n = 0 THEN Zero ELSE RAdd(SumTo(f, n - 1), f[n])

SumAll(f) == SumTo(f, Len(f))

\* C1: under MaintainPension with SpreadCost or AbsorbCost the call keeps each
\* person's total pension: written salary sacrifice + written employee pension
\* equals the baseline salary sacrifice + baseline employee pension.
C1_TotalPensionMaintained ==
    ( /\ ReformApplied
      /\ call.scenario.employee_response = MAINTAIN_PENSION
      /\ call.scenario.employer_response \in {SPREAD_COST, ABSORB_COST} )
    => \A i \in CallPersons :
          RAdd(Written(SS_VAR)[i], Written(PENSION_VAR)[i])
            = RAdd(call.ss_contrib[i], call.employee_pension[i])

C1_Witness ==
    /\ ReformApplied
    /\ call.scenario.employee_response = MAINTAIN_PENSION
    /\ call.scenario.employer_response = SPREAD_COST
    /\ \E i, j \in CallPersons :
          /\ RGt(ExcessOf(i), Zero)
          /\ RGt(call.employee_pension[i], Zero)
          /\ RLt(call.ss_contrib[j], call.scenario.cap_amount)

\* C2: whatever the response pair, the written salary sacrifice of a person is
\* the smaller of the baseline contribution and the cap, so it never exceeds
\* the cap.
C2_SalarySacrificeCapped ==
    ReformApplied
    => \A i \in CallPersons :
          /\ RLe(Written(SS_VAR)[i], call.scenario.cap_amount)
          /\ RLe(call.ss_contrib[i], call.scenario.cap_amount)
               => Written(SS_VAR)[i] = call.ss_contrib[i]
          /\ RGt(call.ss_contrib[i], call.scenario.cap_amount)
               => Written(SS_VAR)[i] = call.scenario.cap_amount

C2_Witness ==
    /\ ReformApplied
    /\ \E i, j \in CallPersons :
          /\ RGt(call.ss_contrib[i], call.scenario.cap_amount)
          /\ RLt(call.ss_contrib[j], call.scenario.cap_amount)

\* C3 as stated: under TakeCash, whatever the employer response, the written
\* employee pension equals the baseline employee pension.
C3_TakeCashNoRedirectAnyEmployer ==
    (ReformApplied /\ call.scenario.employee_response = TAKE_CASH)
    => \A i \in CallPersons : Written(PENSION_VAR)[i] = call.employee_pension[i]

\* C3 amended: under TakeCash with employer response SpreadCost or AbsorbCost
\* the written employee pension equals the baseline employee pension.
C3_TakeCashNoRedirect ==
    ( /\ ReformApplied
      /\ call.scenario.employee_response = TAKE_CASH
      /\ call.scenario.employer_response \in {SPREAD_COST, ABSORB_COST} )
    => \A i \in CallPersons : Written(PENSION_VAR)[i] = call.employee_pension[i]

C3_Witness ==
    /\ ReformApplied
    /\ call.scenario.employee_response = TAKE_CASH
    /\ call.scenario.employer_response = ABSORB_COST
    /\ \E i \in CallPersons :
          RGt(ExcessOf(i), Zero) /\ RGt(call.employee_pension[i], Zero)

\* C4: under TargetedHaircut with rate r, whatever the employee response, each
\* person's employee pension and employment income both rise by
\* excess * (1 - r).
C4_TargetedHaircutNetExcess ==
    (ReformApplied /\ call.scenario.employer_response = TARGETED_HAIRCUT)
    => \A i \in CallPersons :
          LET net == RMul(ExcessOf(i),
                          RSub(One, call.scenario.targeted_haircut_rate))
          IN  /\ RSub(Written(PENSION_VAR)[i], call.employee_pension[i]) = net
              /\ Written(INCOME_VAR)[i] = RAdd(call.emp_income[i], net)

C4_Witness ==
    /\ ReformApplied
    /\ call.scenario.employer_response = TARGETED_HAIRCUT
    /\ call.scenario.employee_response = TAKE_CASH
    /\ call.scenario.targeted_haircut_rate = DefaultTargetedHaircutRate
    /\ \E i \in CallPersons : RGt(ExcessOf(i), Zero)

\* The aggregate haircut of the call: sum(old_employment_income) -
\* (sum(new_employment_income) - sum(cash_portion)).
IncomeReduction ==
    RSub(SumAll(call.emp_income),
         RSub(SumAll(Written(INCOME_VAR)), SumAll(call.cash_portion)))

\* The aggregate employer NI cost increase: sum(excess) * employer_ni_rate.
EmployerNiIncrease ==
    RMul(SumAll([i \in CallPersons |-> ExcessOf(i)]),
         call.scenario.employer_ni_rate)

\* C5 as stated: under SpreadCost, for every population, the aggregate income
\* reduction net of the added cash equals the aggregate employer NI cost
\* increase.
C5_HaircutEqualsNiIncreaseAnyPopulation ==
    (ReformApplied /\ call.scenario.employer_response = SPREAD_COST)
    => IncomeReduction = EmployerNiIncrease

\* C5 amended: under SpreadCost the aggregate income reduction net of the
\* added cash equals the aggregate employer NI cost increase when the total
\* baseline employment income is positive, and is 0 when that total is 0.
C5_HaircutEqualsNiIncrease ==
    (ReformApplied /\ call.scenario.employer_response = SPREAD_COST)
    => IF RGt(SumAll(call.emp_income), Zero)
       THEN IncomeReduction = EmployerNiIncrease
       ELSE IncomeReduction = Zero

C5_Witness ==
    /\ ReformApplied
    /\ call.scenario.employer_response = SPREAD_COST
    /\ call.scenario.employer_ni_rate = DefaultEmployerNiRate
    /\ RGt(SumAll(call.emp_income), Zero)
    /\ RGt(EmployerNiIncrease, Zero)

\* C6: under SpreadCost one scalar rate, sum(excess * employer_ni_rate) /
\* sum(employment_income) over the baseline vectors (0 when the total income
\* is 0), scales the income of every person, with or without excess, before
\* the person's excess is added.
C6_BroadHaircutUniform ==
    (ReformApplied /\ call.scenario.employer_response = SPREAD_COST)
    => LET total == SumAll(call.emp_income)
           rate == IF total = Zero
                   THEN Zero
                   ELSE RDiv(EmployerNiIncrease, total)
       IN  /\ call.broad_haircut_rate = rate
           /\ \A i \in CallPersons :
                 Written(INCOME_VAR)[i]
                   = RAdd(RSub(call.emp_income[i], RMul(call.emp_income[i], rate)),
                          ExcessOf(i))

C6_Witness ==
    /\ ReformApplied
    /\ call.scenario.employer_response = SPREAD_COST
    /\ RGt(call.broad_haircut_rate, Zero)
    /\ \E i, j \in CallPersons :
          /\ RGt(ExcessOf(i), Zero)
          /\ ExcessOf(j) = Zero
          /\ RGt(call.emp_income[j], Zero)
          /\ RLt(Written(INCOME_VAR)[j], call.emp_income[j])

\* C7: under AbsorbCost, with either employee response, the total employment
\* income rises by exactly sum(cash_portion) = sum(excess), and a person with
\* no excess keeps the baseline employment income.
C7_AbsorbCostNoHaircut ==
    (ReformApplied /\ call.scenario.employer_response = ABSORB_COST)
    => /\ RSub(SumAll(Written(INCOME_VAR)), SumAll(call.emp_income))
            = SumAll(call.cash_portion)
       /\ SumAll(call.cash_portion) = SumAll([i \in CallPersons |-> ExcessOf(i)])
       /\ \A i \in CallPersons :
             ExcessOf(i) = Zero => Written(INCOME_VAR)[i] = call.emp_income[i]

C7_Witness ==
    /\ ReformApplied
    /\ call.scenario.employer_response = ABSORB_COST
    /\ call.scenario.employee_response = TAKE_CASH
    /\ \E i, j \in CallPersons :
          /\ RGt(ExcessOf(i), Zero)
          /\ ExcessOf(j) = Zero
          /\ RGt(call.emp_income[j], Zero)

\* Either response field of the scenario holds no member of its enumeration.
UnrecognizedResponse(scenario) ==
    \/ scenario.employer_response \notin EmployerResponse
    \/ scenario.employee_response \notin EmployeeResponse

\* C9: a call whose scenario has an unrecognized employer or employee response
\* ends in ValueError, makes no set_input call and leaves the engine's store
\* as it was.
C9_UnknownVariantFailsFast ==
    [][ (call' # call /\ UnrecognizedResponse(call'.scenario))
        => /\ call'.status = "ValueError"
           /\ sim' = sim
           /\ \A k \in DOMAIN log' : log'[k].op # "set_input" ]_vars

C9_Witness ==
    /\ call.status = "ValueError"
    /\ call.scenario.employee_response = TAKE_CASH
    /\ call.scenario.employer_response = UNRECOGNIZED
    /\ \E i \in CallPersons : RGt(ExcessOf(i), Zero)
    /\ Len(log) = 3

(***************************************************************************)
(* Properties of one statistics call (specification SpecStats).            *)
(***************************************************************************)
StatsReturned == stats.status = "returned"

\* The baseline vectors the statistics call read.
StatsVector(variable) == sim[stats.year][variable]

StatsPersons == DOMAIN StatsVector(SS_VAR)

\* The sum of weight[i] over the persons i of the set who.
WeightOf(who) ==
    SumAll([i \in StatsPersons |->
               IF i \in who THEN StatsVector(WEIGHT_VAR)[i] ELSE Zero])

Contributors == {i \in StatsPersons : RGt(StatsVector(SS_VAR)[i], Zero)}
Affected == {i \in StatsPersons : RGt(StatsVector(SS_VAR)[i], stats.cap_amount)}
Workers == {i \in StatsPersons : RGt(StatsVector(INCOME_VAR)[i], Zero)}

\* C8 as stated: every ratio of the statistics whose weighted denominator is
\* zero is returned as 0, and no ratio is infinite or NaN.
C8_ZeroDenominatorYieldsZero ==
    StatsReturned
    => /\ WeightOf(Contributors) = Zero
            => /\ stats.result.avg_contribution_all_ss = Zero
               /\ stats.result.affected_workers_pct_of_ss = Zero
       /\ WeightOf(Affected) = Zero
            => stats.result.avg_contribution_above_cap = Zero
       /\ WeightOf(Workers) = Zero
            => /\ stats.result.ss_contributors_pct = Zero
               /\ stats.result.affected_workers_pct_of_all = Zero
       /\ \A k \in DOMAIN stats.result : IsFinite(stats.result[k])

\* C10: the statistics call returns total_workers, ss_contributors and
\* affected_workers as the weight of the persons with positive employment
\* income, with a positive contribution and with a contribution strictly
\* above the cap, and total_excess_bn as the weighted excess over 1e9.
C10_PopulationCounts ==
    StatsReturned
    => /\ stats.result.total_workers = WeightOf(Workers)
       /\ stats.result.ss_contributors = WeightOf(Contributors)
       /\ stats.result.affected_workers = WeightOf(Affected)
       /\ stats.result.total_excess_bn
            = RDiv(SumAll([i \in StatsPersons |->
                              IF i \in Affected
                              THEN RMul(RSub(StatsVector(SS_VAR)[i],
                                             stats.cap_amount),
                                        StatsVector(WEIGHT_VAR)[i])
                              ELSE Zero]),
                   FromInt(Billion))

C10_Witness ==
    /\ StatsReturned
    /\ \E i, j \in StatsPersons :
          /\ StatsVector(SS_VAR)[i] = stats.cap_amount
          /\ RGt(StatsVector(SS_VAR)[i], Zero)
          /\ RGt(StatsVector(WEIGHT_VAR)[i], Zero)
          /\ StatsVector(INCOME_VAR)[i] = Zero
          /\ RGt(StatsVector(SS_VAR)[j], stats.cap_amount)
          /\ RGt(StatsVector(WEIGHT_VAR)[j], One)
          /\ RGt(StatsVector(INCOME_VAR)[j], Zero)

(***************************************************************************)
(* Further properties of one transformation call (specification Spec).     *)
(***************************************************************************)
\* C11: when no person's baseline contribution exceeds the cap, the excess is
\* zero for everyone and, whatever the recognized response pair, the three
\* vectors the call writes equal the three baseline vectors it read.
C11_UnderCapUnchanged ==
    ( /\ ReformApplied
      /\ \A i \in CallPersons :
            RLe(call.ss_contrib[i], call.scenario.cap_amount) )
    => /\ \A i \in CallPersons : call.excess[i] = Zero
       /\ Written(INCOME_VAR) = call.emp_income
       /\ Written(PENSION_VAR) = call.employee_pension
       /\ Written(SS_VAR) = call.ss_contrib

C11_Witness ==
    /\ ReformApplied
    /\ call.scenario.employer_response = SPREAD_COST
    /\ call.scenario.employee_response = MAINTAIN_PENSION
    /\ \A i \in CallPersons :
          RLe(call.ss_contrib[i], call.scenario.cap_amount)
    /\ \E i, j \in CallPersons :
          /\ call.ss_contrib[i] = call.scenario.cap_amount
          /\ RGt(call.ss_contrib[i], Zero)
          /\ RGt(call.emp_income[i], Zero)
          /\ RLt(call.ss_contrib[j], call.scenario.cap_amount)
          /\ RGt(call.employee_pension[j], Zero)
          /\ Written(SS_VAR)[j] = call.ss_contrib[j]

\* The positions of the engine calls of one kind in the log of the call.
LogPositions(op) == {k \in DOMAIN log : log[k].op = op}

\* C17: a call that runs to its end reads each of the three baseline
\* variables of its year before its first set_input, makes exactly three
\* set_input calls, one per variable, each with a vector of the population's
\* length, and makes no calculate call after a set_input call.
C17_ReadsBeforeWrites ==
    ReformApplied
    => LET reads == LogPositions("calculate")
           writes == LogPositions("set_input")
           of == {SS_VAR, INCOME_VAR, PENSION_VAR}
       IN  /\ reads \cup writes = DOMAIN log
           /\ \A r \in reads, w \in writes : r < w
           /\ \A variable \in of :
                 \E r \in reads : /\ log[r].variable = variable
                                  /\ log[r].period = call.year
           /\ Cardinality(writes) = 3
           /\ \A variable \in of :
                 Cardinality({w \in writes : log[w].variable = variable}) = 1
           /\ \A w \in writes : /\ log[w].period = call.year
                                /\ log[w].length = Len(call.ss_contrib)

C17_Witness ==
    /\ ReformApplied
    /\ Len(call.ss_contrib) = MaxPersons
    /\ Len(log) = 6
    /\ log[3].op = "calculate"
    /\ log[4].op = "set_input"
    /\ log[6].length = MaxPersons

\* A person's total pension before and after the call.
OldTotalPension(i) == RAdd(call.ss_contrib[i], call.employee_pension[i])
NewTotalPension(i) == RAdd(Written(SS_VAR)[i], Written(PENSION_VAR)[i])

\* C20 as stated: under TakeCash, whatever the employer response, no person's
\* total pension grows and it shrinks for every person with an excess.
C20_TakeCashShrinksPensionAnyEmployer ==
    ( /\ ReformApplied
      /\ call.scenario.employee_response = TAKE_CASH )
    => \A i \in CallPersons :
          /\ RLe(NewTotalPension(i), OldTotalPension(i))
          /\ RGt(ExcessOf(i), Zero)
               => RLt(NewTotalPension(i), OldTotalPension(i))

\* C20: under TakeCash no person's total pension grows.  With SpreadCost or
\* AbsorbCost the total falls by the excess, so it shrinks for every person
\* with an excess; with TargetedHaircut it falls by excess * haircut rate, so
\* it shrinks for those persons only when the haircut rate is positive.
C20_TakeCashShrinksPension ==
    ( /\ ReformApplied
      /\ call.scenario.employee_response = TAKE_CASH )
    => \A i \in CallPersons :
          /\ RLe(NewTotalPension(i), OldTotalPension(i))
          /\ call.scenario.employer_response \in {SPREAD_COST, ABSORB_COST}
               => NewTotalPension(i) = RSub(OldTotalPension(i), ExcessOf(i))
          /\ call.scenario.employer_response = TARGETED_HAIRCUT
               => NewTotalPension(i)
                    = RSub(OldTotalPension(i),
                           RMul(ExcessOf(i),
                                call.scenario.targeted_haircut_rate))
          /\ ( /\ RGt(ExcessOf(i), Zero)
               /\ \/ call.scenario.employer_response # TARGETED_HAIRCUT
                  \/ RGt(call.scenario.targeted_haircut_rate, Zero) )
               => RLt(NewTotalPension(i), OldTotalPension(i))

C20_Witness ==
    /\ ReformApplied
    /\ call.scenario.employee_response = TAKE_CASH
    /\ call.scenario.employer_response = ABSORB_COST
    /\ \E i, j \in CallPersons :
          /\ RGt(ExcessOf(i), Zero)
          /\ RGt(call.employee_pension[i], Zero)
          /\ RLt(NewTotalPension(i), OldTotalPension(i))
          /\ ExcessOf(j) = Zero
          /\ NewTotalPension(j) = OldTotalPension(j)

(***************************************************************************)
(* Properties of the modifier (specifications SpecDriver and SpecRepeat).  *)
(***************************************************************************)
\* The modifier has been called.
ModifyEntered == driver.status # "none"

\* The years of the iterations made so far.
ProcessedYears == {driver.reform.years[k] : k \in 1..driver.position}

\* Whether every engine call of an iteration's log names the given year.
OnlyPeriod(events, year) == \A e \in DOMAIN events : events[e].period = year

\* C14: the modifier iterates over the year list it was given, or over 2026,
\* 2027, 2028, 2029, 2030 when it was given none: its k-th iteration is one
\* call of the transformation for the k-th year of the list, reading and
\* writing that year only, and it returns after one iteration per list
\* element.
C14_OncePerYearInOrder ==
    ModifyEntered
    => LET years == driver.reform.years
           done == driver.position
       IN  /\ driver.years_arg.given => years = driver.years_arg.value
           /\ ~driver.years_arg.given => years = <<2026, 2027, 2028, 2029, 2030>>
           /\ done <= Len(years)
           /\ Len(driver.trace) = done
           /\ \A k \in 1..done :
                 /\ OnlyPeriod(driver.trace[k], years[k])
                 /\ (k < done \/ driver.status # "raised")
                      => /\ Len(driver.trace[k]) = 6
                         /\ \A e \in 1..3 : driver.trace[k][e].op = "calculate"
                         /\ \A e \in 4..6 : driver.trace[k][e].op = "set_input"
           /\ driver.status = "returned" => done = Len(years)
           /\ driver.status = "raised" => call.status = "ValueError"

C14_Witness ==
    /\ ModifyEntered
    /\ driver.status = "returned"
    /\ driver.years_arg = Some(<<2028, 2026>>)
    /\ Len(driver.trace) = 2
    /\ driver.trace[1][4].period = 2028
    /\ driver.trace[2][4].period = 2026

\* The frame the transformation leaves for a baseline frame, person by person.
ExpectedFrame(frame, scenario) ==
    LET ss == frame[SS_VAR]
        inc == frame[INCOME_VAR]
        cap == scenario.cap_amount
        ex == [i \in DOMAIN ss |->
                  IF RGt(ss[i], cap) THEN RSub(ss[i], cap) ELSE Zero]
        net == [i \in DOMAIN ss |->
                  RSub(ex[i], RMul(ex[i], scenario.targeted_haircut_rate))]
        rate == IF RGt(SumAll(inc), Zero)
                THEN RDiv(RMul(SumAll(ex), scenario.employer_ni_rate),
                          SumAll(inc))
                ELSE Zero
        redirect == [i \in DOMAIN ss |->
                  CASE scenario.employer_response = TARGETED_HAIRCUT -> net[i]
                    [] scenario.employee_response = MAINTAIN_PENSION -> ex[i]
                    [] scenario.employee_response = TAKE_CASH -> Zero
                    [] OTHER -> RMul(ex[i], scenario.pension_redirect_rate)]
        income == [i \in DOMAIN ss |->
                  CASE scenario.employer_response = TARGETED_HAIRCUT ->
                           RAdd(inc[i], net[i])
                    [] scenario.employer_response = ABSORB_COST ->
                           RAdd(inc[i], ex[i])
                    [] OTHER ->
                           RAdd(RMul(inc[i], RSub(One, rate)), ex[i])]
    IN  [frame EXCEPT
           ![SS_VAR] = [i \in DOMAIN ss |-> RMin(ss[i], cap)],
           ![INCOME_VAR] = income,
           ![PENSION_VAR] = VecAdd(frame[PENSION_VAR], redirect)]

\* C18: an iteration for year Y calls calculate and set_input for year Y only
\* and the store of a year not iterated over stays the baseline; after
\* iterations over distinct years the store of each of them is the
\* transformation of its own baseline frame, so the store reached depends on
\* the set of years and not on their order.
C18_YearsIndependent ==
    ModifyEntered
    => LET years == driver.reform.years
           done == driver.position
       IN  /\ \A k \in 1..done : OnlyPeriod(driver.trace[k], years[k])
           /\ \A y \in Years \ ProcessedYears : sim[y] = driver.baseline[y]
           /\ ( /\ driver.status # "raised"
                /\ Cardinality(ProcessedYears) = done )
                => \A y \in ProcessedYears :
                      sim[y] = ExpectedFrame(driver.baseline[y],
                                             driver.reform.scenario)

C18_Witness ==
    /\ ModifyEntered
    /\ driver.status = "returned"
    /\ driver.years_arg = Some(<<2027, 2026>>)
    /\ driver.baseline[2026] # driver.baseline[2027]
    /\ sim[2026] # driver.baseline[2026]
    /\ sim[2027] # driver.baseline[2027]
    /\ sim[2026] # sim[2027]
    /\ sim[2028] = driver.baseline[2028]

\* The three vectors of a frame the transformation writes.
Reformed(frame) ==
    [v \in {SS_VAR, INCOME_VAR, PENSION_VAR} |-> frame[v]]

\* C19: when two successive iterations are for the same year, the three
\* vectors stored for that year after the second are those stored after the
\* first, for every recognized response pair and every cap.
C19_Idempotent ==
    ModifyEntered
    => \A k \in 1..(driver.position - 1) :
          ( /\ driver.reform.years[k] = driver.reform.years[k + 1]
            /\ (k + 1 < driver.position \/ driver.status # "raised") )
          => Reformed(driver.stored[k + 1]) = Reformed(driver.stored[k])

C19_Witness ==
    /\ ModifyEntered
    /\ driver.status = "returned"
    /\ driver.reform.years = <<FirstYear, FirstYear>>
    /\ driver.reform.scenario.employer_response = SPREAD_COST
    /\ driver.reform.scenario.employee_response = MAINTAIN_PENSION
    /\ Reformed(driver.stored[1]) # Reformed(driver.baseline[FirstYear])
    /\ Reformed(driver.stored[2]) = Reformed(driver.stored[1])
    /\ \E i \in DOMAIN driver.stored[1][INCOME_VAR] :
          RLt(driver.stored[1][INCOME_VAR][i],
              driver.baseline[FirstYear][INCOME_VAR][i])

(***************************************************************************)
(* Properties of the scenario matrix (specification SpecMatrix).           *)
(***************************************************************************)
\* The caps a cap_amounts argument asks for: its list, or 2000 when none is
\* given.
RequestedCaps ==
    IF matrix.cap_amounts.given
    THEN matrix.cap_amounts.value
    ELSE <<FromInt(2000)>>

\* Whether a configuration has the given cap and response pair.
IsConfiguration(scenario, cap, employer, employee) ==
    /\ scenario.cap_amount = cap
    /\ scenario.employer_response = employer
    /\ scenario.employee_response = employee

\* Whether scenarios[from + 1 .. from + 4] is the 2x2 block of the cap, the
\* employer response varying slower than the employee response.
IsBlock(scenarios, from, cap) ==
    /\ IsConfiguration(scenarios[from + 1], cap, SPREAD_COST, MAINTAIN_PENSION)
    /\ IsConfiguration(scenarios[from + 2], cap, SPREAD_COST, TAKE_CASH)
    /\ IsConfiguration(scenarios[from + 3], cap, ABSORB_COST, MAINTAIN_PENSION)
    /\ IsConfiguration(scenarios[from + 4], cap, ABSORB_COST, TAKE_CASH)

\* C12: get_scenario_matrix returns four configurations per requested cap,
\* the caps in the order given, within a cap SpreadCost before AbsorbCost and
\* within an employer response MaintainPension before TakeCash; two calls
\* with the same caps return the same list.
C12_MatrixOrder ==
    matrix.status # "none"
    => /\ \A c \in DOMAIN matrix.returns :
             /\ Len(matrix.returns[c]) = 4 * Len(RequestedCaps)
             /\ \A k \in DOMAIN RequestedCaps :
                   IsBlock(matrix.returns[c], 4 * (k - 1), RequestedCaps[k])
       /\ \A c, d \in DOMAIN matrix.returns :
             matrix.returns[c] = matrix.returns[d]

C12_Witness ==
    /\ matrix.status # "none"
    /\ matrix.cap_amounts = Some(<<FromInt(2), FromInt(1)>>)
    /\ Len(matrix.returns) = 2
    /\ Len(matrix.returns[2]) = 8
    /\ IsConfiguration(matrix.returns[2][1], FromInt(2), SPREAD_COST,
                       MAINTAIN_PENSION)
    /\ IsConfiguration(matrix.returns[2][8], FromInt(1), ABSORB_COST,
                       TAKE_CASH)

\* C13: the batch of run_scenario_matrix is the 2x2 block of each requested
\* cap followed, when include_targeted_haircut is set, by one TargetedHaircut
\* x MaintainPension configuration per requested cap, and the cap of every
\* configuration run is a requested (or the default) cap.
C13_BatchCoversRequestedCaps ==
    matrix.status = "run"
    => LET caps == RequestedCaps
           batch == matrix.batch
           targeted == IF matrix.include_targeted_haircut THEN Len(caps) ELSE 0
       IN  /\ Len(batch) = 4 * Len(caps) + targeted
           /\ \A k \in DOMAIN caps : IsBlock(batch, 4 * (k - 1), caps[k])
           /\ \A k \in 1..targeted :
                 IsConfiguration(batch[4 * Len(caps) + k], caps[k],
                                 TARGETED_HAIRCUT, MAINTAIN_PENSION)
           /\ \A b \in DOMAIN batch :
                 \E k \in DOMAIN caps : batch[b].cap_amount = caps[k]

(***************************************************************************)
(* Properties of run_scenario (specification SpecRun).                     *)
(***************************************************************************)
\* The years run_scenario is configured with.
ConfiguredYears ==
    IF run.years_arg.given THEN run.years_arg.value ELSE <<2026, 2027, 2028, 2029>>

ConfiguredYearSet == {ConfiguredYears[k] : k \in DOMAIN ConfiguredYears}

\* (sum of reformed gov_balance - sum of baseline gov_balance) / 1e9 of a year.
DeltaOf(year) ==
    RDiv(FromInt(run.gov_balance_of.reformed[year]
                   - run.gov_balance_of.baseline[year]),
         FromInt(Billion))

\* The sum of the per-year deltas over a set of years.
RECURSIVE DeltaSum(_)
DeltaSum(years) ==
    IF years = {}
    THEN Zero
    ELSE LET year == CHOOSE y \in years : TRUE
         IN  RAdd(DeltaOf(year), DeltaSum(years \ {year}))

\* C15: run_scenario returns revenue_by_year[y] = the delta of year y for each
\* configured year, total_revenue_bn = the sum of those deltas over the
\* configured years and avg_annual_revenue_bn = their mean over the
\* configured years.
C15_RevenueSumAndMean ==
    ( /\ run.status = "done"
      /\ run.results.status = "returned" )
    => /\ \A year \in ConfiguredYearSet :
             run.results.revenue_by_year[year] = DeltaOf(year)
       /\ run.results.total_revenue_bn = DeltaSum(ConfiguredYearSet)
       /\ run.results.avg_annual_revenue_bn
            = RDiv(DeltaSum(ConfiguredYearSet),
                   FromInt(Cardinality(ConfiguredYearSet)))

(***************************************************************************)
(* Properties of calculate_distributional_impact (specification SpecDist). *)
(***************************************************************************)
\* The total household weight of a decile.
DecileWeight(decile) ==
    SumAll([i \in DOMAIN dist.households.deciles |->
               IF dist.households.deciles[i] = decile
               THEN dist.households.weights[i]
               ELSE Zero])

\* C16: the output has a row for decile d of 1..10 exactly when the total
\* household weight of decile d is not zero, its rows are in ascending decile
\* order, and a row whose average baseline income is 0 has pct_change 0.
C16_DecileRows ==
    dist.status = "returned"
    => /\ \A row \in DOMAIN dist.rows : dist.rows[row].decile \in 1..10
       /\ \A decile \in 1..10 :
             (\E row \in DOMAIN dist.rows : dist.rows[row].decile = decile)
               <=> DecileWeight(decile) # Zero
       /\ \A row \in 1..(Len(dist.rows) - 1) :
             dist.rows[row].decile < dist.rows[row + 1].decile
       /\ \A row \in DOMAIN dist.rows :
             dist.rows[row].avg_baseline_income = Zero
               => dist.rows[row].pct_change = Zero

C16_Witness ==
    /\ dist.status = "returned"
    /\ Len(dist.rows) = 2
    /\ dist.rows[1].decile = 1
    /\ dist.rows[2].decile = 10
    /\ dist.rows[1].avg_baseline_income = Zero
    /\ RGt(dist.rows[1].avg_change, Zero)
    /\ dist.rows[1].pct_change = Zero

(***************************************************************************)
(* Non-negativity of the written frame (specification Spec).               *)
(***************************************************************************)
\* C21: for a baseline frame of non-negative amounts, a cap >= 0 and rates in
\* [0, 1], every value a call writes is >= 0: the written employment income,
\* employee pension contribution and salary sacrifice of every person, under
\* every employer response.
C21_WrittenValuesNonNegative ==
    ReformApplied
    => \A i \in CallPersons :
          /\ RLe(Zero, Written(INCOME_VAR)[i])
          /\ RLe(Zero, Written(PENSION_VAR)[i])
          /\ RLe(Zero, Written(SS_VAR)[i])

====
